---- MODULE Spec2Model ----
(***************************************************************************)
(* A model of the news scraper's core: the merge of listing and detail     *)
(* records (AbstractSource.merge_lists_by_key), the per-source pipeline    *)
(* (process of every adapter class) and the orchestrator (Engine.run).     *)
(*                                                                         *)
(* Python values are modelled as follows.  A dict is a function whose      *)
(* DOMAIN is the set of its keys.  A list of dicts is a sequence of object *)
(* ids into a heap (a sequence of dicts), so that dict.update, which       *)
(* changes an object in place, is visible through every list that holds    *)
(* the object.  An exception is a status other than "ok".                  *)
(***************************************************************************)
EXTENDS Integers, Sequences, FiniteSets, TLC

VARIABLES
    mpc,        \* merge harness: "ready" before the call, "done" after it
    list1,      \* merge harness: the dicts of the first argument, as passed
    list2,      \* merge harness: the dicts of the second argument, as passed
    mres,       \* merge harness: outcome of merge_lists_by_key(list1, list2, key)
    mres2,      \* merge harness: outcome of merging the returned list with
                \* list2 once more
    apc,        \* adapter harness: "ready" before the call, "done" after it
    acls,       \* adapter harness: the adapter class
    aworld,     \* adapter harness: the pages the call reads
    ares,       \* adapter harness: outcome of class().process(url)
    epc,        \* Engine: where run is ("ready", "loop", "returned", "raised")
    sources,    \* Engine: self.sources, a list of [class, enabled, url]
    idx,        \* Engine.run: position of source_info in self.sources
    all_results, \* Engine.run: the local list all_results
    calls,      \* Engine.run: the adapters instantiated so far, with how
                \* process ended and what it returned
    eres,       \* Engine.run: what run gave its caller
    prev,       \* Engine: how the call of run before this one ended ("none"
                \* for the first call, "raised", "empty" or "records")
    ipc,        \* ISO harness: "ready" before the call, "done" after it
    iso_string, \* ISO harness: the argument of extract_date_time_from_iso
    iso_out     \* ISO harness: outcome of the call

mergeVars == <<mpc, list1, list2, mres, mres2>>
adapterVars == <<apc, acls, aworld, ares>>
engineVars == <<epc, sources, idx, all_results, calls, eres, prev>>
isoVars == <<ipc, iso_string, iso_out>>
vars == <<mergeVars, adapterVars, engineVars, isoVars>>

(***************************************************************************)
(* Bounds of the merge harness.                                            *)
(***************************************************************************)
MaxLen == 2     \* longest list passed to merge_lists_by_key
MaxKey == 2     \* number of distinct key values

(***************************************************************************)
(* Bound of the adapter harness.                                           *)
(***************************************************************************)
MaxStubs == 3   \* most entries on a listing page

(***************************************************************************)
(* Bounds of the Engine.                                                   *)
(***************************************************************************)
MaxSources == 3     \* most entries of self.sources
MaxRunLinks == 2    \* most entries on a listing page read during a run
MaxRerunSources == 2    \* most entries of self.sources of an engine run again

(***************************************************************************)
(* Python dicts.                                                           *)
(***************************************************************************)
\* key in d
Has(d, f) == f \in DOMAIN d

\* d.update(item): every key of item is written into d, the others stay
UpdatePrimaryWins(d, item) ==
    [f \in DOMAIN d \cup DOMAIN item |-> IF f \in DOMAIN d THEN d[f] ELSE item[f]]

UpdateReplace(d, item) == item

Update(d, item) ==
    [f \in DOMAIN d \cup DOMAIN item |-> IF f \in DOMAIN item THEN item[f] ELSE d[f]]

(***************************************************************************)
(* merged_dict: a Python dict keeps its keys in insertion order, and an    *)
(* assignment to a key it already holds keeps the key's position.  It is   *)
(* modelled as a sequence of entries [k |-> key value, obj |-> object id]. *)
(***************************************************************************)
\* A membership test that never finds the key.
DictHasNever(d, k) == FALSE

DictHas(d, k) == \E i \in 1..Len(d) : d[i].k = k

DictGet(d, k) == d[CHOOSE i \in 1..Len(d) : d[i].k = k].obj

DictSetAppendAlways(d, k, o) == Append(d, [k |-> k, obj |-> o])

DictSet(d, k, o) ==
    IF DictHas(d, k)
    THEN [i \in 1..Len(d) |-> IF d[i].k = k THEN [k |-> k, obj |-> o] ELSE d[i]]
    ELSE Append(d, [k |-> k, obj |-> o])

\* The values last inserted first.
DictValuesReversed(d) == [i \in 1..Len(d) |-> d[Len(d) + 1 - i].obj]

DictValues(d) == [i \in 1..Len(d) |-> d[i].obj]

(***************************************************************************)
(* merge_lists_by_key(list1, list2, key).  st is the state of the call:    *)
(* status ("ok" or the exception raised), heap (the objects, which the     *)
(* call changes in place) and dict (merged_dict).  The two loops are       *)
(* folded over the lists from position i on.                               *)
(***************************************************************************)
\* The first loop with merged_dict.setdefault(item[key], item): of the list1
\* dicts with one key the first is kept.
RECURSIVE MergeFirstLoopKeepFirst(_, _, _, _)
MergeFirstLoopKeepFirst(st, l1, i, key) ==
    IF i > Len(l1) THEN st
    ELSE LET o == l1[i]
             item == st.heap[o]
         IN  IF ~Has(item, key)
             THEN [st EXCEPT !.status = "KeyError"]
             ELSE IF DictHas(st.dict, item[key])
                  THEN MergeFirstLoopKeepFirst(st, l1, i + 1, key)
                  ELSE MergeFirstLoopKeepFirst(
                           [st EXCEPT !.dict = DictSet(@, item[key], o)],
                           l1, i + 1, key)

RECURSIVE MergeFirstLoop(_, _, _, _)
MergeFirstLoop(st, l1, i, key) ==
    IF i > Len(l1) THEN st
    ELSE LET o == l1[i]
             item == st.heap[o]
         IN  IF ~Has(item, key)
             THEN [st EXCEPT !.status = "KeyError"]
             ELSE MergeFirstLoop([st EXCEPT !.dict = DictSet(@, item[key], o)],
                                 l1, i + 1, key)

\* The second loop without its else branch: a list2 dict whose key is new is
\* not inserted.
RECURSIVE MergeSecondLoopNoInsert(_, _, _, _)
MergeSecondLoopNoInsert(st, l2, i, key) ==
    IF i > Len(l2) THEN st
    ELSE LET o == l2[i]
             item == st.heap[o]
         IN  IF ~Has(item, key)
             THEN [st EXCEPT !.status = "KeyError"]
             ELSE IF DictHas(st.dict, item[key])
                  THEN LET t == DictGet(st.dict, item[key])
                       IN  MergeSecondLoopNoInsert(
                               [st EXCEPT !.heap[t] = Update(st.heap[t], item)],
                               l2, i + 1, key)
                  ELSE MergeSecondLoopNoInsert(st, l2, i + 1, key)

\* The second loop merging into the list2 dict: for a key merged_dict holds,
\* the list2 dict receives the fields and takes the place of the dict held.
RECURSIVE MergeSecondLoopIntoSecondary(_, _, _, _)
MergeSecondLoopIntoSecondary(st, l2, i, key) ==
    IF i > Len(l2) THEN st
    ELSE LET o == l2[i]
             item == st.heap[o]
         IN  IF ~Has(item, key)
             THEN [st EXCEPT !.status = "KeyError"]
             ELSE IF DictHas(st.dict, item[key])
                  THEN LET t == DictGet(st.dict, item[key])
                       IN  MergeSecondLoopIntoSecondary(
                               [st EXCEPT !.heap[o] = Update(st.heap[t], item),
                                          !.dict = DictSet(@, item[key], o)],
                               l2, i + 1, key)
                  ELSE MergeSecondLoopIntoSecondary(
                           [st EXCEPT !.dict = DictSet(@, item[key], o)],
                           l2, i + 1, key)

RECURSIVE MergeSecondLoop(_, _, _, _)
MergeSecondLoop(st, l2, i, key) ==
    IF i > Len(l2) THEN st
    ELSE LET o == l2[i]
             item == st.heap[o]
         IN  IF ~Has(item, key)
             THEN [st EXCEPT !.status = "KeyError"]
             ELSE IF DictHas(st.dict, item[key])
                  THEN LET t == DictGet(st.dict, item[key])
                       IN  MergeSecondLoop(
                               [st EXCEPT !.heap[t] = Update(st.heap[t], item)],
                               l2, i + 1, key)
                  ELSE MergeSecondLoop(
                           [st EXCEPT !.dict = DictSet(@, item[key], o)],
                           l2, i + 1, key)

\* The call: status, the heap after the call, and the returned list (of
\* object ids; empty when the call raised).
merge_lists_by_key(heap, l1, l2, key) ==
    LET s0 == [status |-> "ok", heap |-> heap, dict |-> <<>>]
        s1 == MergeFirstLoop(s0, l1, 1, key)
        s2 == IF s1.status = "ok" THEN MergeSecondLoop(s1, l2, 1, key) ELSE s1
    IN  [status |-> s2.status,
         heap   |-> s2.heap,
         list   |-> IF s2.status = "ok" THEN DictValues(s2.dict) ELSE <<>>]

\* The dicts a list of object ids denotes in a heap.
Deref(heap, l) == [i \in 1..Len(l) |-> heap[l[i]]]

\* The object ids from + 1 .. from + n: the callers below lay the objects of
\* the first list out first and those of the second list after them.
Ids(from, n) == [i \in 1..n |-> from + i]

(***************************************************************************)
(* Python values held by the fields of the scraped dicts.  A value is      *)
(* [t, o, i]: its type t ("None", "str" or "list"), and what it holds: a   *)
(* literal text o, or the text of a page element, named by the place o it  *)
(* was read from ("stub": the listing entry, "detail": the article page,   *)
(* "link": the href of the listing entry) and the number i of that entry   *)
(* or link.                                                                *)
(***************************************************************************)
PyNone == [t |-> "None", o |-> "", i |-> 0]
Str(o, i) == [t |-> "str", o |-> o, i |-> i]
List(o, i) == [t |-> "list", o |-> o, i |-> i]
Lit(text) == Str(text, 0)
EmptyStr == Lit("")
EmptyList == List("", 0)

\* Python truthiness: None, "" and [] are false.
Truthy(v) == v # PyNone /\ v # EmptyStr /\ v # EmptyList

\* obj.get(f, default) and obj.get(f)
Get(obj, f, default) == IF Has(obj, f) THEN obj[f] ELSE default
GetOrNone(obj, f) == Get(obj, f, PyNone)

(***************************************************************************)
(* The date texts a page may show, and the three conversions of            *)
(* AbstractSource.  Each returns [status, date, time].                     *)
(***************************************************************************)
LongDate == Lit("March 5, 2024 2:30PM")     \* matches "%B %d, %Y %I:%M%p"
ShortDate == Lit("Mar 5, 2024 2:30PM")      \* matches "%b %d, %Y %I:%M%p"
BadDate == Lit("not a date")                \* matches no format
IsoDate == Lit("2024-03-05T14:30:00Z")      \* ISO 8601 with a Z suffix

Converted(d, t) == [status |-> "ok", date |-> d, time |-> t]
Raised(e) == [status |-> e, date |-> EmptyStr, time |-> EmptyStr]

\* iso_string.replace("Z", "+00:00"), then datetime.fromisoformat
extract_date_time_from_iso(v) ==
    IF ~Truthy(v) THEN Converted(EmptyStr, EmptyStr)
    ELSE IF v = IsoDate THEN Converted(Lit("2024-03-05"), Lit("14:30:00"))
    ELSE Raised("ValueError")

\* datetime.strptime(date_str, "%B %d, %Y %I:%M%p"): no guard, no except
extract_date_time(v) ==
    IF v.t # "str" THEN Raised("TypeError")
    ELSE IF v = LongDate THEN Converted(Lit("2024-03-05"), Lit("14:30:00"))
    ELSE Raised("ValueError")

\* parse_date returns the text "Invalid date format" when no format matches,
\* and pytz's localize then fails on that text.
parse_datetime(v) ==
    IF ~Truthy(v) THEN Converted(EmptyStr, EmptyStr)
    ELSE IF v \in {LongDate, ShortDate} THEN Converted(Lit("2024-03-05"), Lit("02:30 PM"))
    ELSE Raised("AttributeError")

\* datetime.now(), formatted
get_current_date_and_time == [date |-> Lit("capturedDate"), time |-> Lit("capturedTime")]

(***************************************************************************)
(* The adapter classes.                                                    *)
(***************************************************************************)
Classes == {"Deadline", "HollywoodReporter", "Variety", "Vulture", "SlashFilm",
            "Atlantic", "ScreenDaily", "NyTimes", "Collider", "IndieWire",
            "LATimes", "TheGuardian"}

\* process returns [] when the seed fetch fails; the other classes go on to
\* the merge with detailed_stories never assigned.
GuardedClasses == {"NyTimes", "Collider", "IndieWire", "LATimes", "TheGuardian"}

\* The key process passes to merge_lists_by_key and reads from every stub.
MergeKey(c) == IF c \in {"NyTimes", "IndieWire", "LATimes", "TheGuardian"}
               THEN "link" ELSE "url"

\* The field under which process_children stores the link of a detail dict.
DetailKey(c) == IF c \in {"IndieWire", "LATimes", "TheGuardian"}
                THEN "link" ELSE "url"

\* ScreenDaily defines to_jSON and leaves the abstract to_json undefined, so
\* the class cannot be instantiated.
Instantiable(c) == c # "ScreenDaily"

\* The classes whose to_json converts the "time" of the stub, and those whose
\* to_json converts the "date" of the detail dict.
ReadsStubTime(c) == c \in {"Atlantic", "Collider"}
ReadsDetailDate(c) == c \in {"Deadline", "HollywoodReporter", "Variety"}

(***************************************************************************)
(* The pages one process call reads.  A listing entry is [link, time]:     *)
(* link is the number of the URL its title anchor points to, 0 when the    *)
(* entry has no title anchor, and time says what its time element holds    *)
(* ("absent", "iso", "bad").  A detail page is [ok, date]: whether the     *)
(* fetch of the link succeeded (status 200) and what date the page shows   *)
(* ("long", "short", "bad", "none").  pages[i] is what the i-th detail     *)
(* fetch of the call gives.                                                *)
(***************************************************************************)
TimeValue(kind) == CASE kind = "iso" -> IsoDate
                     [] kind = "bad" -> BadDate
                     [] OTHER -> PyNone

DateValue(kind) == CASE kind = "long" -> LongDate
                     [] kind = "short" -> ShortDate
                     [] kind = "bad" -> BadDate
                     [] OTHER -> PyNone

Url(n) == Str("link", n)

\* A dict with the single field f, or the empty dict.
Field(f, v) == f :> v
FieldIf(cond, f, v) == IF cond THEN f :> v ELSE <<>>

(***************************************************************************)
(* get_stories: the stub dict built from listing entry e, the i-th of the  *)
(* page.  Title and link are stored together, and only for an entry that   *)
(* has the title anchor.                                                   *)
(***************************************************************************)
Stub(c, e, i) ==
    LET has == e.link # 0
        txt == Str("stub", i)
        titleUrl == FieldIf(has, "title", txt) @@ FieldIf(has, "url", Url(e.link))
    IN  CASE c \in {"Deadline", "HollywoodReporter"} ->
                titleUrl @@ Field("author_name", txt) @@ Field("author_url", txt)
                    @@ Field("time", txt) @@ Field("category", txt)
                    @@ Field("thumbnail", txt)
          [] c = "Variety" ->
                Field("title", txt) @@ Field("thumbnail", txt)
                    @@ Field("category", txt) @@ Field("url", Url(e.link))
          [] c \in {"Vulture", "ScreenDaily"} ->
                titleUrl @@ Field("thumbnail", txt)
          [] c = "SlashFilm" ->
                titleUrl @@ Field("author_name", txt) @@ Field("author_url", EmptyStr)
                    @@ Field("category", txt) @@ Field("thumbnail", txt)
          [] c = "Atlantic" ->
                titleUrl @@ Field("author_name", txt) @@ Field("author_url", txt)
                    @@ FieldIf(e.time # "absent", "time", TimeValue(e.time))
                    @@ Field("thumbnail", txt)
          [] c = "Collider" ->
                titleUrl @@ Field("author_name", txt) @@ Field("author_url", txt)
                    @@ FieldIf(e.time # "absent", "time", TimeValue(e.time))
                    @@ Field("category", txt) @@ Field("thumbnail", txt)
          [] c = "NyTimes" ->
                Field("title", txt) @@ Field("content", txt)
                    @@ Field("categories", EmptyList) @@ Field("author", txt)
                    @@ Field("date", txt)
                    @@ Field("link", IF has THEN Url(e.link) ELSE PyNone)
                    @@ Field("banner", txt)
          [] c = "IndieWire" ->
                Field("category", List("stub", i)) @@ Field("title", txt)
                    @@ FieldIf(has, "link", Url(e.link)) @@ Field("author", txt)
                    @@ Field("time", txt) @@ Field("thumbnail", txt)
          [] c = "LATimes" ->
                Field("title", txt) @@ FieldIf(has, "link", Url(e.link))
          [] OTHER -> \* TheGuardian
                FieldIf(has, "link", Url(e.link))

\* Variety appends a stub only for an entry that has title, thumbnail,
\* category and link.
Listed(c, e) == c = "Variety" => e.link # 0

RECURSIVE StubsFrom(_, _, _)
StubsFrom(c, entries, i) ==
    IF i > Len(entries) THEN <<>>
    ELSE (IF Listed(c, entries[i]) THEN <<Stub(c, entries[i], i)>> ELSE <<>>)
            \o StubsFrom(c, entries, i + 1)

\* TheGuardian reads the href of an anchor it has not checked for None.
get_stories(c, entries) ==
    IF c = "TheGuardian" /\ \E i \in 1..Len(entries) : entries[i].link = 0
    THEN [status |-> "AttributeError", stories |-> <<>>]
    ELSE [status |-> "ok", stories |-> StubsFrom(c, entries, 1)]

(***************************************************************************)
(* process_children: one detail dict per link whose page was fetched.      *)
(***************************************************************************)
Detail(c, url, page, i) ==
    LET txt == Str("detail", i)
        lst == List("detail", i)
        base == Field("title", txt) @@ Field("content", lst)
                    @@ Field(DetailKey(c), url) @@ Field("banner", txt)
    IN  CASE c \in {"Deadline", "Variety"} ->
                base @@ Field("author_name", txt) @@ Field("date", DateValue(page.date))
                    @@ Field("categories", lst) @@ Field("author_url", txt)
          [] c = "HollywoodReporter" ->
                base @@ Field("author_name", txt) @@ Field("date", DateValue(page.date))
                    @@ Field("categories", lst) @@ Field("author_url", txt)
                    @@ Field("tagline", txt)
          [] c = "Vulture" ->
                base @@ Field("categories", lst) @@ Field("author_name", txt)
                    @@ Field("author_url", txt)
          [] c = "Atlantic" ->
                base @@ Field("categories", lst)
          [] c = "LATimes" ->
                Field("content", lst) @@ Field("author", txt)
                    @@ Field("category", lst) @@ Field("link", url)
                    @@ Field("banner", txt) @@ Field("publishedTime", txt)
                    @@ Field("publishedDate", txt)
          [] c = "TheGuardian" ->
                base @@ Field("author", txt) @@ Field("category", lst)
                    @@ Field("publishedTime", txt) @@ Field("publishedDate", txt)
          [] OTHER -> base  \* SlashFilm, ScreenDaily, NyTimes, Collider, IndieWire

\* The classes with an extractor that dereferences the result of a find it
\* has not tested: a page without that element makes it raise
\* AttributeError (TypeError for a subscript).  The extractors of
\* HollywoodReporter test every element they read.
RaisingExtractors == Classes \ {"HollywoodReporter"}

\* Variety wraps the extraction of a page in try/except Exception and
\* returns None from process_children in the handler; no other class has a
\* handler in process_children.
CatchesExtraction(c) == c = "Variety"

\* An extractor raised on the page of a link: st after the error.  The
\* handler of Variety returns None, dropping the detail dicts collected so
\* far; elsewhere the error leaves process_children.
AfterExtractionError(c, st) ==
    IF CatchesExtraction(c)
    THEN [st EXCEPT !.returned = "None", !.list = <<>>]
    ELSE [st EXCEPT !.status = "AttributeError"]

\* st is [status, returned, list, fetched]: how the loop ended, what it
\* returns ("list" or "None"), the detail dicts so far and the links
\* requested so far.  requests.get(None)
\* raises MissingSchema; requests.get raises ConnectionError when the
\* request cannot be carried out.
RECURSIVE ChildrenLoop(_, _, _, _, _)
ChildrenLoop(c, st, links, pages, i) ==
    IF i > Len(links) THEN st
    ELSE IF links[i] = PyNone THEN [st EXCEPT !.status = "MissingSchema"]
    ELSE LET fetched == Append(st.fetched, links[i])
         IN  IF pages[i].err = "transport"
             THEN [st EXCEPT !.status = "ConnectionError", !.fetched = fetched]
             ELSE IF ~pages[i].ok
             THEN ChildrenLoop(c, [st EXCEPT !.fetched = fetched], links, pages, i + 1)
             ELSE IF pages[i].err = "extract"
             THEN AfterExtractionError(c, [st EXCEPT !.fetched = fetched])
             ELSE ChildrenLoop(c,
                      [st EXCEPT !.list = Append(@, Detail(c, links[i], pages[i], i)),
                                 !.fetched = fetched],
                      links, pages, i + 1)

\* processed_contents = []
NoDetails == [status |-> "ok", returned |-> "list", list |-> <<>>, fetched |-> <<>>]

\* process_children without its "if content:" test: a detail dict for every
\* link whose request returned, with status 200 or not.
process_children_unguarded(c, links, pages) ==
    ChildrenLoop(c, NoDetails, links,
                 [i \in DOMAIN pages |-> [pages[i] EXCEPT !.ok = TRUE]], 1)

process_children(c, links, pages) == ChildrenLoop(c, NoDetails, links, pages, 1)

(***************************************************************************)
(* to_json: one canonical record per merged dict.                          *)
(***************************************************************************)
\* The conversion to_json applies to the published date of a merged dict.
PublishedOf(c, obj, now) ==
    CASE c \in {"Deadline", "HollywoodReporter"} ->
            extract_date_time(GetOrNone(obj, "date"))
      [] c \in {"Variety", "Vulture"} ->
            parse_datetime(GetOrNone(obj, "date"))
      [] c \in {"Atlantic", "SlashFilm", "ScreenDaily", "Collider", "NyTimes"} ->
            extract_date_time_from_iso(GetOrNone(obj, "time"))
      [] c = "IndieWire" ->
            Converted(now.date, now.time)
      [] OTHER -> \* LATimes, TheGuardian
            Converted(Get(obj, "publishedDate", EmptyStr),
                      Get(obj, "publishedTime", EmptyStr))

\* A text taken from the list v: its first element, or its elements joined.
TextOf(v) == IF v.t = "list" THEN Str(v.o, v.i) ELSE v

SectionOf(c, obj) ==
    CASE c \in {"Deadline", "HollywoodReporter", "Variety", "SlashFilm", "Atlantic"} ->
            IF Truthy(GetOrNone(obj, "categories"))
            THEN TextOf(obj["categories"]) ELSE EmptyStr
      [] c = "ScreenDaily" ->
            IF Truthy(GetOrNone(obj, "categories"))
            THEN TextOf(obj["categories"]) ELSE Get(obj, "category", EmptyStr)
      [] c = "Vulture" -> TextOf(Get(obj, "categories", EmptyList))
      [] c \in {"Collider", "NyTimes"} -> Get(obj, "category", EmptyStr)
      [] OTHER -> TextOf(Get(obj, "category", EmptyList))

\* obj.get("content", "") in one family of classes; in the other the content
\* if it is a list, else [].
ContentOf(c, obj) ==
    IF c \in {"Collider", "NyTimes", "IndieWire", "LATimes", "TheGuardian"}
    THEN (IF GetOrNone(obj, "content").t = "list" THEN obj["content"] ELSE EmptyList)
    ELSE Get(obj, "content", EmptyStr)

SourceName(c) ==
    CASE c = "Deadline" -> "deadline"
      [] c = "HollywoodReporter" -> "hollywoordreporter"
      [] c = "Variety" -> "variety"
      [] c = "Vulture" -> "vulture"
      [] c = "SlashFilm" -> "slashfilm"
      [] c = "Atlantic" -> "atlantic"
      [] c = "ScreenDaily" -> "screendaily"
      [] c \in {"NyTimes", "Collider"} -> "screenrant"
      [] c = "IndieWire" -> "indiewire"
      [] c = "LATimes" -> "latimes"
      [] OTHER -> "theguardian"

\* ScreenDaily's to_jSON, which names its fields differently.
CanonicalScreenDaily(c, obj, pub, now) ==
    [source        |-> Lit(SourceName(c)),
     sourceIconURL |-> Lit(SourceName(c)),
     sourceSection |-> SectionOf(c, obj),
     title         |-> Get(obj, "title", EmptyStr),
     content       |-> ContentOf(c, obj),
     timePublished |-> pub.time,
     datePublished |-> pub.date,
     authorName    |-> Get(obj, "author_name", EmptyStr),
     authorLink    |-> Get(obj, "author_url", EmptyStr),
     url           |-> Get(obj, "url", EmptyStr),
     banner        |-> Get(obj, "banner", EmptyStr),
     timeCaptured  |-> now.time,
     dateCaptured  |-> now.date]

CanonicalCommon(c, obj, pub, now) ==
    [source            |-> Lit(SourceName(c)),
     sourceIconURL     |-> Lit(SourceName(c)),
     sourceSection     |-> SectionOf(c, obj),
     title             |-> Get(obj, "title", EmptyStr),
     content           |-> ContentOf(c, obj),
     author            |-> IF c \in {"IndieWire", "LATimes", "TheGuardian"}
                           THEN Get(obj, "author", EmptyStr)
                           ELSE Get(obj, "author_name", EmptyStr),
     urlArticle        |-> IF c \in {"IndieWire", "LATimes", "TheGuardian"}
                           THEN Get(obj, "link", EmptyStr)
                           ELSE Get(obj, "url", EmptyStr),
     urlBannerImage    |-> Get(obj, "banner", EmptyStr),
     urlThumbnailImage |-> IF c \in {"NyTimes", "IndieWire", "LATimes", "TheGuardian"}
                           THEN Get(obj, "banner", EmptyStr)
                           ELSE Get(obj, "thumbnail", EmptyStr),
     publishedDate     |-> pub.date,
     publishedTime     |-> pub.time,
     capturedDate      |-> now.date,
     capturedTime      |-> now.time]

\* The captured fields filled from the published date and time.
CanonicalCapturedFromPublished(c, obj, pub, now) ==
    [CanonicalCommon(c, obj, pub, now) EXCEPT !.capturedDate = pub.date,
                                              !.capturedTime = pub.time]

Canonical(c, obj, pub, now) ==
    IF c = "ScreenDaily" THEN CanonicalScreenDaily(c, obj, pub, now)
    ELSE CanonicalCommon(c, obj, pub, now)

\* What the clock shows after n records have been built: the time has
\* moved on from the reading made before the loop.
LaterReading(n) == [date |-> Lit("capturedDate"), time |-> Str("capturedTime", n)]

\* The loop of to_json reading the clock anew for every record.
RECURSIVE ToJsonLoopClockPerRecord(_, _, _, _, _)
ToJsonLoopClockPerRecord(c, objects, now, i, acc) ==
    IF i > Len(objects) THEN [status |-> "ok", list |-> acc]
    ELSE LET pub == PublishedOf(c, objects[i], LaterReading(i))
         IN  IF pub.status # "ok" THEN [status |-> pub.status, list |-> <<>>]
             ELSE ToJsonLoopClockPerRecord(c, objects, now, i + 1,
                      Append(acc, Canonical(c, objects[i], pub, LaterReading(i))))

\* The loop of to_json from dict i on; the first conversion that raises
\* ends the call.
RECURSIVE ToJsonLoop(_, _, _, _, _)
ToJsonLoop(c, objects, now, i, acc) ==
    IF i > Len(objects) THEN [status |-> "ok", list |-> acc]
    ELSE LET pub == PublishedOf(c, objects[i], now)
         IN  IF pub.status # "ok" THEN [status |-> pub.status, list |-> <<>>]
             ELSE ToJsonLoop(c, objects, now, i + 1,
                             Append(acc, Canonical(c, objects[i], pub, now)))

to_json(c, objects) == ToJsonLoop(c, objects, get_current_date_and_time, 1, <<>>)

(***************************************************************************)
(* process(url) of class c on the pages w = [seedOk, seedRaised, entries,   *)
(* pages].                                                                 *)
(* The outcome is [status, step, out, seedOk, stories, detailed, merged,   *)
(* fetched]: how the call ended ("ok" when it returned, else the exception *)
(* that left it), the step of process that ended it, the list it returned, *)
(* and what it computed on the way (stubs and detail dicts as built, the   *)
(* merged dicts, the links fetched), and requests, the URLs passed to      *)
(* get_primary_content in the order of the calls.                          *)
(***************************************************************************)
\* The url argument of process.
SeedUrl == Str("seed", 0)

\* The first statement of process requests the seed URL; the detail loop
\* requests the links after it.  A class that cannot be instantiated
\* requests nothing.
Requests(step, fetched) ==
    IF step \in {"instantiate", "none"} THEN <<>> ELSE <<SeedUrl>> \o fetched

Outcome(status, step, out, w, stories, detailed, merged, fetched) ==
    [status |-> status, step |-> step, out |-> out, seedOk |-> w.seedOk,
     stories |-> stories, detailed |-> detailed, merged |-> merged,
     fetched |-> fetched, requests |-> Requests(step, fetched)]

\* parent_links read from the last stub to the first
ParentLinksReversed(stories, key) ==
    [i \in 1..Len(stories) |-> stories[Len(stories) + 1 - i][key]]

\* parent_links = [story[key] for story in stories]
ParentLinks(stories, key) == [i \in 1..Len(stories) |-> stories[i][key]]

\* The part of process after a successful seed fetch.
ProcessListing(c, w) ==
    LET gs == get_stories(c, w.entries)
        key == MergeKey(c)
    IN  IF gs.status # "ok"
        THEN Outcome(gs.status, "get_stories", <<>>, w, <<>>, <<>>, <<>>, <<>>)
        ELSE IF \E i \in 1..Len(gs.stories) : ~Has(gs.stories[i], key)
        THEN Outcome("KeyError", "parent_links", <<>>, w, gs.stories, <<>>, <<>>, <<>>)
        ELSE
        LET pc == process_children(c, ParentLinks(gs.stories, key), w.pages)
        IN  IF pc.status # "ok"
            THEN Outcome(pc.status, "process_children", <<>>, w, gs.stories, pc.list, <<>>,
                         pc.fetched)
            ELSE IF pc.returned = "None"
            THEN \* for item in list1, with list1 = None
                 Outcome("TypeError", "merge_lists_by_key", <<>>, w, gs.stories, <<>>,
                         <<>>, pc.fetched)
            ELSE
            LET m == merge_lists_by_key(pc.list \o gs.stories,
                                        Ids(0, Len(pc.list)),
                                        Ids(Len(pc.list), Len(gs.stories)),
                                        key)
                merged == Deref(m.heap, m.list)
            IN  IF m.status # "ok"
                THEN Outcome(m.status, "merge_lists_by_key", <<>>, w, gs.stories, pc.list,
                             <<>>, pc.fetched)
                ELSE
                LET j == to_json(c, merged)
                IN  Outcome(j.status, "to_json", j.list, w, gs.stories, pc.list, merged,
                             pc.fetched)

\* The seed fetch failed.  requests.get raised: the exception leaves
\* get_primary_content and process.  The status was not 200: a guarded
\* class returns [], the others read detailed_stories, which was never
\* assigned.
ProcessNoSeed(c, w) ==
    IF w.seedRaised
    THEN Outcome("ConnectionError", "get_primary_content", <<>>, w, <<>>, <<>>, <<>>,
                 <<>>)
    ELSE IF c \in GuardedClasses
    THEN Outcome("ok", "get_primary_content", <<>>, w, <<>>, <<>>, <<>>, <<>>)
    ELSE Outcome("UnboundLocalError", "merge_lists_by_key", <<>>, w, <<>>, <<>>, <<>>,
                 <<>>)

process(c, w) == IF w.seedOk THEN ProcessListing(c, w) ELSE ProcessNoSeed(c, w)

(***************************************************************************)
(* The merge harness: merge_lists_by_key applied once to two arbitrary     *)
(* lists of dicts over the fields "url" (the key) and "title".  Either     *)
(* field may be absent from a dict, and a key value may occur several      *)
(* times in a list.  The "title" of every dict is distinct, so that the    *)
(* dict a merged value came from can be told.                              *)
(***************************************************************************)
KeyVals == 1..MaxKey

\* The i-th dict of a list: side 1 is list1, side 2 is list2.
TitleOf(side, i) == side * 100 + i

Shapes == [hasKey : BOOLEAN, k : KeyVals, hasTitle : BOOLEAN]

DictOfShape(s, side, i) ==
    [f \in (IF s.hasKey THEN {"url"} ELSE {}) \cup (IF s.hasTitle THEN {"title"} ELSE {})
        |-> IF f = "url" THEN s.k ELSE TitleOf(side, i)]

SeqsUpTo(S, n) == UNION {[1..m -> S] : m \in 0..n}

CanonShape(s) == s.hasKey \/ s.k = 1

InputLists(side) ==
    {[i \in 1..Len(ss) |-> DictOfShape(ss[i], side, i)] :
        ss \in SeqsUpTo({s \in Shapes : CanonShape(s)}, MaxLen)}

NoResult == [status |-> "none", heap |-> <<>>, list |-> <<>>]

NoWorld == [seedOk |-> FALSE, seedRaised |-> FALSE, entries |-> <<>>, pages |-> <<>>]
NoOutcome == Outcome("none", "none", <<>>, NoWorld, <<>>, <<>>, <<>>, <<>>)

MergeIdle ==
    /\ mpc = "idle" /\ list1 = <<>> /\ list2 = <<>>
    /\ mres = NoResult /\ mres2 = NoResult
AdapterIdle == apc = "idle" /\ acls = "" /\ aworld = NoWorld /\ ares = NoOutcome

NoReturn == [returned |-> FALSE, value |-> <<>>, error |-> "none"]
\* A text that is not a timestamp, and the outcome before the call.
NoStamp == [y |-> 0, mo |-> 0, d |-> 0, h |-> 0, mi |-> 0, s |-> 0, us |-> 0, zone |-> ""]
NoIsoOut == [status |-> "none", date |-> [form |-> "", y |-> 0, mo |-> 0, d |-> 0],
             time |-> [form |-> "", h |-> 0, mi |-> 0, s |-> 0, us |-> 0]]
IsoIdle == ipc = "idle" /\ iso_string = [kind |-> "none", stamp |-> NoStamp] /\ iso_out = NoIsoOut

EngineIdle ==
    /\ epc = "idle" /\ sources = <<>> /\ idx = 0 /\ all_results = <<>>
    /\ calls = <<>> /\ eres = NoReturn /\ prev = "none"

MergeInit ==
    /\ mpc = "ready"
    /\ list1 \in InputLists(1)
    /\ list2 \in InputLists(2)
    /\ mres = NoResult
    /\ mres2 = NoResult
    /\ AdapterIdle
    /\ EngineIdle
    /\ IsoIdle

MergeCall ==
    /\ mpc = "ready"
    /\ mres' = merge_lists_by_key(list1 \o list2,
                                  Ids(0, Len(list1)),
                                  Ids(Len(list1), Len(list2)),
                                  "url")
    /\ mpc' = "done"
    /\ UNCHANGED <<list1, list2, mres2, adapterVars, engineVars, isoVars>>

\* merge_lists_by_key(result, list2, key), on the objects as the first call
\* left them.
MergeAgain ==
    /\ mpc = "done"
    /\ mres.status = "ok"
    /\ mres2' = merge_lists_by_key(mres.heap, mres.list,
                                   Ids(Len(list1), Len(list2)), "url")
    /\ mpc' = "again"
    /\ UNCHANGED <<list1, list2, mres, adapterVars, engineVars, isoVars>>

MergeNext == MergeCall \/ MergeAgain

SpecMerge == MergeInit /\ [][MergeNext]_vars

\* The list the call returned, as dicts.
Merged == Deref(mres.heap, mres.list)

MergeReturned == mpc = "done" /\ mres.status = "ok"

(***************************************************************************)
(* The adapter harness: one adapter class is instantiated and its process  *)
(* called once, as Engine.run does for an enabled entry, on arbitrary      *)
(* pages.  The URLs of a listing page are numbered in the order of their   *)
(* first appearance on it.                                                 *)
(***************************************************************************)
LinkLists ==
    {ls \in SeqsUpTo(0..MaxStubs, MaxStubs) :
        \A i \in 1..Len(ls) :
            ls[i] = 0 \/ ls[i] = 1 \/ \E j \in 1..(i - 1) : ls[j] = ls[i] - 1}

EntryTimes(c) == IF ReadsStubTime(c) THEN {"absent", "iso", "bad"} ELSE {"absent"}
PageDates(c) == IF ReadsDetailDate(c) THEN {"long", "short", "bad", "none"} ELSE {"none"}

EntriesFor(c, ls) ==
    {[i \in 1..Len(ls) |-> [link |-> ls[i], time |-> ts[i]]] :
        ts \in [1..Len(ls) -> EntryTimes(c)]}

\* A request answered with a status other than 200.
NotFound == [ok |-> FALSE, date |-> "none", err |-> "none"]

\* The outcomes of the request of a detail page and of the extraction from
\* it: ok is "status 200", err is "transport" when requests.get raised,
\* "extract" when the page lacks an element an extractor dereferences.
PagesOf(c) ==
    {NotFound, [ok |-> FALSE, date |-> "none", err |-> "transport"]}
        \cup {[ok |-> TRUE, date |-> d, err |-> "none"] : d \in PageDates(c)}
        \cup (IF c \in RaisingExtractors
              THEN {[ok |-> TRUE, date |-> "none", err |-> "extract"]}
              ELSE {})

\* The pages of n links.  The detail loop ends at the first page with an
\* error, so the pages after it are never requested: they are NotFound.
PageSeqs(c, n) ==
    {ps \in [1..n -> PagesOf(c)] :
        \A i \in 1..n : (\E j \in 1..(i - 1) : ps[j].err # "none") => ps[i] = NotFound}

\* The seed request raised.
SeedRaisedWorld == [NoWorld EXCEPT !.seedRaised = TRUE]

\* w is a choice of pages for a call of class c.
IsWorld(c, w) ==
    \/ w = NoWorld
    \/ w = SeedRaisedWorld
    \/ \E ls \in LinkLists :
        \E es \in EntriesFor(c, ls), ps \in PageSeqs(c, Len(ls)) :
            w = [seedOk |-> TRUE, seedRaised |-> FALSE, entries |-> es, pages |-> ps]

\* source = source_info["class"](); results = source.process(url)
RunAdapter(c, w) ==
    IF Instantiable(c) THEN process(c, w)
    ELSE Outcome("TypeError", "instantiate", <<>>, w, <<>>, <<>>, <<>>, <<>>)

AdapterInit ==
    /\ apc = "ready"
    /\ acls \in Classes
    /\ IsWorld(acls, aworld)
    /\ ares = NoOutcome
    /\ MergeIdle
    /\ EngineIdle
    /\ IsoIdle

AdapterCall ==
    /\ apc = "ready"
    /\ ares' = RunAdapter(acls, aworld)
    /\ apc' = "done"
    /\ UNCHANGED <<acls, aworld, mergeVars, engineVars, isoVars>>

AdapterNext == AdapterCall

SpecAdapter == AdapterInit /\ [][AdapterNext]_vars

(***************************************************************************)
(* The ISO harness: extract_date_time_from_iso applied once to None, to    *)
(* the empty string, to a text that is no timestamp, or to a timestamp     *)
(* text YYYY-MM-DDTHH:MM:SS[.ffffff][zone], held as its fields (us the     *)
(* fraction in microseconds, 0 when the text has none; zone the suffix).   *)
(* A text is [kind, stamp]; a returned date or time text is held as its    *)
(* form and its fields.                                                    *)
(***************************************************************************)
IsoStamps ==
    [y : {2024}, mo : {3, 12}, d : {5, 31}, h : {0, 14, 23}, mi : {0, 30},
     s : {0, 59}, us : {0, 250000}, zone : {"Z", "+00:00", "+05:30", ""}]

IsoArguments ==
    {[kind |-> k, stamp |-> NoStamp] : k \in {"none", "empty", "text"}}
        \cup {[kind |-> "stamp", stamp |-> x] : x \in IsoStamps}

\* if iso_string: None and "" are false
IsoTruthy(a) == a.kind \in {"text", "stamp"}

\* iso_string.replace("Z", "+00:00")
ReplaceZ(a) ==
    IF a.kind = "stamp" /\ a.stamp.zone = "Z"
    THEN [a EXCEPT !.stamp.zone = "+00:00"]
    ELSE a

\* datetime.fromisoformat: the datetime of a timestamp text, ValueError for
\* another text (before Python 3.11 also for the suffix Z).
fromisoformat(a) ==
    IF a.kind = "stamp" /\ a.stamp.zone # "Z"
    THEN [status |-> "ok", dt |-> a.stamp]
    ELSE [status |-> "ValueError", dt |-> NoStamp]

\* dt.date().isoformat()
DateIsoformat(dt) == [form |-> "YYYY-MM-DD", y |-> dt.y, mo |-> dt.mo, d |-> dt.d]

\* dt.time().isoformat(): the offset is dropped, and the microseconds are
\* written when they are not 0.
TimeIsoformat(dt) ==
    [form |-> IF dt.us = 0 THEN "HH:MM:SS" ELSE "HH:MM:SS.ffffff",
     h |-> dt.h, mi |-> dt.mi, s |-> dt.s, us |-> dt.us]

EmptyDateText == [form |-> "", y |-> 0, mo |-> 0, d |-> 0]
EmptyTimeText == [form |-> "", h |-> 0, mi |-> 0, s |-> 0, us |-> 0]

\* extract_date_time_from_iso on the argument a.
ExtractIso(a) ==
    IF IsoTruthy(a)
    THEN LET p == fromisoformat(ReplaceZ(a))
         IN  IF p.status = "ok"
             THEN [status |-> "ok", date |-> DateIsoformat(p.dt),
                   time |-> TimeIsoformat(p.dt)]
             ELSE [status |-> p.status, date |-> EmptyDateText, time |-> EmptyTimeText]
    ELSE [status |-> "ok", date |-> EmptyDateText, time |-> EmptyTimeText]

IsoInit ==
    /\ ipc = "ready"
    /\ iso_string \in IsoArguments
    /\ iso_out = NoIsoOut
    /\ MergeIdle
    /\ AdapterIdle
    /\ EngineIdle

IsoCall ==
    /\ ipc = "ready"
    /\ iso_out' = ExtractIso(iso_string)
    /\ ipc' = "done"
    /\ UNCHANGED <<iso_string, mergeVars, adapterVars, engineVars>>

IsoNext == IsoCall

SpecIso == IsoInit /\ [][IsoNext]_vars

(***************************************************************************)
(* The Engine: self.sources is set at construction and run is called.      *)
(* self.sources is a run of consecutive entries of the list written in     *)
(* Engine.__init__, each enabled or not.  One step of run visits one       *)
(* entry; an enabled entry's adapter reads a listing page of distinct      *)
(* links and their detail pages.                                           *)
(***************************************************************************)
\* The classes of the list in Engine.__init__, in the order written.
Declared == <<"Deadline", "Variety", "HollywoodReporter", "SlashFilm", "Atlantic",
              "NyTimes", "IndieWire", "Collider", "ScreenDaily">>

Configs ==
    {[i \in 1..n |-> [class |-> Declared[from + i - 1], enabled |-> en[i],
                      url |-> Str("seed", from + i - 1)]] :
        <<from, n, en>> \in
            {<<f, m, e>> \in (1..Len(Declared)) \X (0..MaxSources)
                                \X SeqsUpTo(BOOLEAN, MaxSources) :
                /\ f + m - 1 <= Len(Declared)
                /\ Len(e) = m
                /\ (m = 0 => f = 1)}}

\* The pages a call made by run reads: the seed page, fetched or not, with
\* one link per detail page of ps.
RunWorld(seed, ps) ==
    CASE seed = "ok" ->
            [seedOk |-> TRUE, seedRaised |-> FALSE,
             entries |-> [i \in 1..Len(ps) |-> [link |-> i, time |-> "absent"]],
             pages |-> ps]
      [] seed = "raised" -> SeedRaisedWorld
      [] OTHER -> NoWorld

\* The pages a call of class c made by run may read: a seed page that was
\* not fetched, or a listing of at most MaxRunLinks links and their pages.
RunWorlds(c) ==
    {RunWorld("status", <<>>), RunWorld("raised", <<>>)}
        \cup UNION {{RunWorld("ok", ps) : ps \in PageSeqs(c, n)} : n \in 0..MaxRunLinks}

\* How source_info["class"]().process(url) may end, for each class: with
\* the list it returns or the exception that leaves it.
RunOutcomes ==
    [c \in Classes |->
        {[status |-> r.status, out |-> r.out] : r \in {RunAdapter(c, w) : w \in RunWorlds(c)}}]

\* all_results.extend(results), mistaken for an insertion at the front
ExtendFront(all, results) == results \o all

\* all_results.extend(results)
Extend(all, results) == all \o results

\* The loop of run with a try/except around the call that goes on to the
\* next entry.
AfterProcessCaught(run, r) ==
    IF r.status = "ok"
    THEN [run EXCEPT !.all_results = Extend(@, r.out), !.idx = @ + 1]
    ELSE [run EXCEPT !.idx = @ + 1]

\* run = [epc, idx, all_results, error] after source.process(url) ended
\* with outcome r: its list extends all_results, its exception leaves run.
AfterProcess(run, r) ==
    IF r.status = "ok"
    THEN [run EXCEPT !.all_results = Extend(@, r.out), !.idx = @ + 1]
    ELSE [run EXCEPT !.epc = "raised", !.error = r.status]

\* if source_info["enabled"]:
Visits(source_info) == source_info.enabled

\* The accumulator of a run that goes on from the list of the run before.
NewAccumulatorKept(all) == all

\* all_results = []
NewAccumulator(all) == <<>>

\* The loop of run assigning to the entry it has visited.
SourcesAfterDisabling(srcs, i) == [srcs EXCEPT ![i].enabled = FALSE]

\* self.sources after the loop of run has visited entry i: the loop reads
\* source_info["enabled"], ["class"] and ["url"] and assigns to none.
SourcesAfter(srcs, i) == srcs

Init ==
    /\ epc = "ready"
    /\ sources \in Configs
    /\ idx = 0
    /\ all_results = <<>>
    /\ calls = <<>>
    /\ eres = NoReturn
    /\ prev = "none"
    /\ MergeIdle
    /\ AdapterIdle
    /\ IsoIdle

\* run is called: all_results = []
RunStart ==
    /\ epc = "ready"
    /\ epc' = "loop"
    /\ idx' = 1
    /\ all_results' = NewAccumulator(all_results)
    /\ calls' = <<>>
    /\ UNCHANGED <<sources, eres, prev, mergeVars, adapterVars, isoVars>>

\* An entry that is not enabled is passed over.
RunSkip ==
    /\ epc = "loop"
    /\ idx <= Len(sources)
    /\ ~Visits(sources[idx])
    /\ idx' = idx + 1
    /\ sources' = SourcesAfter(sources, idx)
    /\ UNCHANGED <<epc, all_results, calls, eres, prev, mergeVars, adapterVars,
                   isoVars>>

\* source = source_info["class"](); results = source.process(url);
\* all_results.extend(results)
RunSource ==
    /\ epc = "loop"
    /\ idx <= Len(sources)
    /\ Visits(sources[idx])
    /\ \E r \in RunOutcomes[sources[idx].class] :
        LET run == AfterProcess([epc |-> epc, idx |-> idx,
                                 all_results |-> all_results,
                                 error |-> "none"], r)
        IN  /\ calls' = Append(calls, [at |-> idx, class |-> sources[idx].class,
                                       status |-> r.status, out |-> r.out])
            /\ epc' = run.epc
            /\ idx' = run.idx
            /\ all_results' = run.all_results
            /\ eres' = IF run.epc = "raised"
                       THEN [returned |-> FALSE, value |-> <<>>, error |-> run.error]
                       ELSE eres
    /\ sources' = SourcesAfter(sources, idx)
    /\ UNCHANGED <<prev, mergeVars, adapterVars, isoVars>>

\* return all_results
RunReturn ==
    /\ epc = "loop"
    /\ idx > Len(sources)
    /\ epc' = "returned"
    /\ eres' = [returned |-> TRUE, value |-> all_results, error |-> "none"]
    /\ UNCHANGED <<sources, idx, all_results, calls, prev, mergeVars, adapterVars,
                   isoVars>>

Next == RunStart \/ RunSkip \/ RunSource \/ RunReturn

Spec == Init /\ [][Next]_vars

(***************************************************************************)
(* Several calls of run on one engine, as run_engine would make them on an *)
(* engine it kept: after a call has returned or raised, run may be called  *)
(* again.  The configurations are those of at most MaxRerunSources         *)
(* entries.  A call of run executes its loop to the end: the steps of run  *)
(* are weakly fair, the next call by the caller is not.                    *)
(***************************************************************************)
InitRuns == Init /\ Len(sources) <= MaxRerunSources

\* How a call of run ended, in short.
Ended(e) ==
    IF ~e.returned THEN "raised" ELSE IF e.value = <<>> THEN "empty" ELSE "records"

\* The caller has used what the call gave it and calls run again.
RunAgain ==
    /\ epc \in {"returned", "raised"}
    /\ epc' = "ready"
    /\ prev' = Ended(eres)
    /\ eres' = NoReturn
    /\ UNCHANGED <<sources, idx, all_results, calls, mergeVars, adapterVars, isoVars>>

NextRuns == RunStart \/ RunSkip \/ RunSource \/ RunReturn \/ RunAgain

SpecRuns == InitRuns /\ [][NextRuns]_vars /\ WF_vars(Next)

(***************************************************************************)
(* Properties of process, checked under SpecAdapter.                       *)
(***************************************************************************)
\* The field process joins the stubs and the detail dicts on.
JoinKey == MergeKey(acls)

\* Positions of the dicts of list l that carry join key value k.
At(l, k) == {i \in 1..Len(l) : Has(l[i], JoinKey) /\ l[i][JoinKey] = k}

\* Join key values carried by the dicts of list l.
JoinKeys(l) == {l[i][JoinKey] : i \in {j \in 1..Len(l) : Has(l[j], JoinKey)}}

Last(S) == CHOOSE i \in S : \A j \in S : j <= i

\* process got as far as to_json: merge_lists_by_key returned ares.merged.
MergeBuilt == apc = "done" /\ ares.step = "to_json"

\* The listing carries each URL once, and nothing on the pages is malformed.
PlainPages ==
    /\ \A i \in 1..Len(aworld.entries) :
        /\ aworld.entries[i].link # 0
        /\ aworld.entries[i].time \in {"absent", "iso"}
        /\ \A j \in 1..Len(aworld.entries) :
            aworld.entries[i].link = aworld.entries[j].link => i = j
    /\ \A i \in 1..Len(aworld.pages) :
        aworld.pages[i].ok /\ ReadsDetailDate(acls) => aworld.pages[i].date = "long"

\* C1: a call of process whose seed-page fetch failed returns the empty
\* list and raises nothing, whatever the adapter class.
C1_SeedFailureReturnsEmpty ==
    (apc = "done" /\ Instantiable(acls) /\ ~aworld.seedOk)
        => (ares.status = "ok" /\ ares.out = <<>>)

\* C2: in the merged dicts of a call, for every join key that one stub and
\* one detail dict carry, every field of the detail dict has the detail
\* dict's value and every field of the stub alone has the stub's value.
C2_DetailWins ==
    MergeBuilt =>
        \A s \in 1..Len(ares.stories), d \in 1..Len(ares.detailed) :
            LET k == ares.stories[s][JoinKey]
            IN  (At(ares.stories, k) = {s} /\ At(ares.detailed, k) = {d})
                => /\ At(ares.merged, k) # {}
                   /\ \A m \in At(ares.merged, k) :
                        /\ \A f \in DOMAIN ares.detailed[d] :
                            /\ Has(ares.merged[m], f)
                            /\ ares.merged[m][f] = ares.detailed[d][f]
                        /\ \A f \in DOMAIN ares.stories[s] \ DOMAIN ares.detailed[d] :
                            /\ Has(ares.merged[m], f)
                            /\ ares.merged[m][f] = ares.stories[s][f]

\* C2 as amended: in the merged dicts of a call, for every join key that a
\* stub and a detail dict carry, every field of a stub of the key has the
\* value of the last stub of the key having the field (the stub wins), and
\* every field that only detail dicts of the key have has the value of the
\* last detail dict of the key.
C2_StubWins ==
    MergeBuilt =>
        \A k \in JoinKeys(ares.stories) \cap JoinKeys(ares.detailed) :
            LET S == At(ares.stories, k)
                d == ares.detailed[Last(At(ares.detailed, k))]
                StubFields == UNION {DOMAIN ares.stories[s] : s \in S}
            IN  /\ At(ares.merged, k) # {}
                /\ \A m \in At(ares.merged, k) :
                    /\ \A f \in StubFields :
                        /\ Has(ares.merged[m], f)
                        /\ ares.merged[m][f] =
                            ares.stories[Last({s \in S : Has(ares.stories[s], f)})][f]
                    /\ \A f \in DOMAIN d \ StubFields :
                        /\ Has(ares.merged[m], f)
                        /\ ares.merged[m][f] = d[f]

\* C2 witness: a call returned whose merged dicts hold, for a key with a
\* stub and a detail dict that differ on the title, the stub's title and
\* the detail dict's content.
C2_Witness ==
    /\ MergeBuilt
    /\ ares.status = "ok"
    /\ \E s \in 1..Len(ares.stories), d \in 1..Len(ares.detailed) :
        LET k == ares.stories[s][JoinKey]
        IN  /\ At(ares.stories, k) = {s} /\ At(ares.detailed, k) = {d}
            /\ Has(ares.stories[s], "title") /\ Has(ares.detailed[d], "title")
            /\ ares.stories[s]["title"] # ares.detailed[d]["title"]
            /\ ~Has(ares.stories[s], "content")
            /\ \E m \in At(ares.merged, k) :
                /\ ares.merged[m]["title"] = ares.stories[s]["title"]
                /\ ares.merged[m]["content"] = ares.detailed[d]["content"]

\* C3: a join key carried by one stub whose detail page could not be
\* fetched is carried by exactly one merged dict, and that dict has the
\* stub's fields with the stub's values and no other field.
C3_StubOnlyKeyOnceVerbatim ==
    MergeBuilt =>
        \A s \in 1..Len(ares.stories) :
            LET k == ares.stories[s][JoinKey]
            IN  (At(ares.stories, k) = {s} /\ ~aworld.pages[s].ok)
                => \E m \in 1..Len(ares.merged) :
                    /\ At(ares.merged, k) = {m}
                    /\ ares.merged[m] = ares.stories[s]

\* C3 witness: a call returned whose listing had a link that was fetched
\* and a link that was not, and the stub of the latter is a merged dict.
C3_Witness ==
    /\ MergeBuilt
    /\ ares.status = "ok"
    /\ ares.detailed # <<>>
    /\ \E s \in 1..Len(ares.stories) :
        LET k == ares.stories[s][JoinKey]
        IN  /\ At(ares.stories, k) = {s} /\ ~aworld.pages[s].ok
            /\ At(ares.detailed, k) = {}
            /\ \E m \in 1..Len(ares.merged) : ares.merged[m] = ares.stories[s]

\* C4: a call on a listing of three links, of which exactly one could not
\* be fetched, raises nothing and returns a canonical record for each of
\* the other two links.
C4_PartialCompletion ==
    (/\ apc = "done" /\ Instantiable(acls) /\ aworld.seedOk
     /\ Len(aworld.entries) = 3
     /\ PlainPages
     /\ Cardinality({i \in 1..3 : ~aworld.pages[i].ok}) = 1)
    => /\ ares.status = "ok"
       /\ \A i \in 1..3 :
            aworld.pages[i].ok =>
                \E r \in 1..Len(ares.out) :
                    ares.out[r][IF acls = "ScreenDaily" THEN "url" ELSE "urlArticle"]
                        = Url(aworld.entries[i].link)

\* C15: in every canonical record a call returns, content is a list, and
\* the empty list when the merged dict has no content.
C15_ContentIsList ==
    (apc = "done" /\ ares.status = "ok") =>
        \A i \in 1..Len(ares.out) :
            /\ ares.out[i].content.t = "list"
            /\ ~Has(ares.merged[i], "content") => ares.out[i].content = EmptyList

\* The classes whose to_json converts the date text of the detail page
\* with extract_date_time or parse_datetime.
NaiveDateClasses == {"Deadline", "HollywoodReporter", "Variety", "Vulture"}

\* The listing carries each URL once and every detail page is fetched.
AllFetched ==
    /\ aworld.seedOk
    /\ \A i \in 1..Len(aworld.entries) :
        /\ aworld.entries[i].link # 0
        /\ aworld.pages[i].ok
        /\ \A j \in 1..Len(aworld.entries) :
            aworld.entries[i].link = aworld.entries[j].link => i = j

\* C16: a call of a class of the naive date path, on pages whose date text
\* may match no format or be absent, raises nothing and returns a record
\* per link: with empty publishedDate and publishedTime where the date did
\* not parse, with the converted date where it matches the long format,
\* and with the link and title of the story in either case.
C16_DateFailureRecovered ==
    (apc = "done" /\ acls \in NaiveDateClasses /\ AllFetched) =>
        /\ ares.status = "ok"
        /\ Len(ares.out) = Len(aworld.entries)
        /\ \A i \in 1..Len(ares.out) :
            /\ aworld.pages[i].date \in {"bad", "none"} =>
                /\ ares.out[i].publishedDate = EmptyStr
                /\ ares.out[i].publishedTime = EmptyStr
            /\ aworld.pages[i].date = "long" => ares.out[i].publishedDate # EmptyStr
            /\ ares.out[i].urlArticle = Url(aworld.entries[i].link)
            /\ ares.out[i].title = ares.stories[i]["title"]

\* C18: every canonical record a call returns has the fields capturedDate
\* and capturedTime, holding the date and time read from the clock and not
\* the empty string, whatever its published fields hold.
C18_CapturedPopulated ==
    (apc = "done" /\ ares.status = "ok") =>
        \A i \in 1..Len(ares.out) :
            /\ {"capturedDate", "capturedTime"} \subseteq DOMAIN ares.out[i]
            /\ ares.out[i].capturedDate = get_current_date_and_time.date
            /\ ares.out[i].capturedTime = get_current_date_and_time.time
            /\ ares.out[i].capturedDate # EmptyStr
            /\ ares.out[i].capturedTime # EmptyStr

\* C18 witness: a call returned a record with empty published fields and a
\* record with a converted published date, both with the captured fields.
C18_Witness ==
    /\ apc = "done" /\ ares.status = "ok"
    /\ \E i, j \in 1..Len(ares.out) :
        /\ ares.out[i].publishedDate = EmptyStr
        /\ ares.out[j].publishedDate \notin {EmptyStr, get_current_date_and_time.date}
        /\ ares.out[i].capturedDate = get_current_date_and_time.date
        /\ ares.out[j].capturedTime = get_current_date_and_time.time

\* The listing carries each URL once, no request fails, and the date text
\* of every page from which the extraction succeeds is well formed.
ExtractionOnly ==
    /\ aworld.seedOk
    /\ \A i \in 1..Len(aworld.entries) :
        /\ aworld.entries[i].link # 0
        /\ aworld.entries[i].time \in {"absent", "iso"}
        /\ \A j \in 1..Len(aworld.entries) :
            aworld.entries[i].link = aworld.entries[j].link => i = j
        /\ aworld.pages[i].err = "extract"
            \/ /\ aworld.pages[i].ok
               /\ aworld.pages[i].err = "none"
               /\ ReadsDetailDate(acls) => aworld.pages[i].date = "long"
            \/ \E j \in 1..(i - 1) : aworld.pages[j].err = "extract"

\* C19: a call in which an extractor raises on the detail page of a link
\* returns all the same, with a detail dict and a canonical record for
\* every link whose page was extracted without error, and a canonical
\* record for no link the listing does not carry.
C19_ExtractionErrorIsolated ==
    (/\ apc = "done" /\ Instantiable(acls) /\ ExtractionOnly
     /\ \E i \in 1..Len(aworld.pages) : aworld.pages[i].err = "extract")
    => /\ ares.status = "ok"
       /\ \A i \in 1..Len(aworld.pages) :
            (aworld.pages[i].ok /\ aworld.pages[i].err = "none") =>
                /\ \E d \in 1..Len(ares.detailed) :
                        ares.detailed[d][DetailKey(acls)] = Url(aworld.entries[i].link)
                /\ \E r \in 1..Len(ares.out) :
                        ares.out[r][IF acls = "ScreenDaily" THEN "url" ELSE "urlArticle"]
                            = Url(aworld.entries[i].link)

\* C20: a call in which a request fails, by a status other than 200 or by
\* an exception of requests.get, raises nothing; it returns the empty list
\* when the failed request is that of the seed page, and a record for every
\* link of the listing when it is that of a detail page.
C20_FetchFailureRecovered ==
    (/\ apc = "done" /\ Instantiable(acls)
     /\ \A i \in 1..Len(aworld.entries) :
            /\ aworld.entries[i].link # 0
            /\ aworld.entries[i].time \in {"absent", "iso"}
            /\ \A j \in 1..Len(aworld.entries) :
                aworld.entries[i].link = aworld.entries[j].link => i = j
            /\ aworld.pages[i].err # "extract"
            /\ (aworld.pages[i].ok /\ ReadsDetailDate(acls)) => aworld.pages[i].date = "long"
     /\ \/ ~aworld.seedOk
        \/ \E i \in 1..Len(aworld.pages) : ~aworld.pages[i].ok)
    => /\ ares.status = "ok"
       /\ ~aworld.seedOk => ares.out = <<>>
       /\ aworld.seedOk => Len(ares.out) = Len(aworld.entries)

Least(S) == CHOOSE i \in S : \A j \in S : i <= j

\* The call returned, with one canonical record per merged dict.
Returned == MergeBuilt /\ ares.status = "ok" /\ Len(ares.out) = Len(ares.merged)

\* C21: in the list a call returns, for any two stubs with distinct keys,
\* the record of the stub listed earlier precedes the record of the stub
\* listed later.
C21_ListingOrder ==
    Returned =>
        \A s, t \in 1..Len(ares.stories) :
            (s < t /\ ares.stories[s][JoinKey] # ares.stories[t][JoinKey]) =>
                \A m \in At(ares.merged, ares.stories[s][JoinKey]),
                   n \in At(ares.merged, ares.stories[t][JoinKey]) : m < n

\* C21 as amended: in the list a call returns, the records of the keys that
\* have a detail dict come first, in the order of the first detail dict of
\* each key (the order of the first successful fetch), and the records of
\* the other keys follow, in the order in which the keys are first listed.
C21_FetchedFirstThenListingOrder ==
    Returned =>
        \A k1, k2 \in JoinKeys(ares.stories) :
            LET D1 == At(ares.detailed, k1)
                D2 == At(ares.detailed, k2)
                before == \A m \in At(ares.merged, k1), n \in At(ares.merged, k2) : m < n
            IN  /\ At(ares.merged, k1) # {}
                /\ k1 # k2 =>
                    /\ (D1 # {} /\ D2 # {} /\ Least(D1) < Least(D2)) => before
                    /\ (D1 # {} /\ D2 = {}) => before
                    /\ (D1 = {} /\ D2 = {}
                            /\ Least(At(ares.stories, k1)) < Least(At(ares.stories, k2)))
                        => before

\* C21 witness: a call returned on a listing whose first link could not be
\* fetched and whose second link was, and the record of the second link
\* precedes the record of the first.
C21_Witness ==
    /\ Returned
    /\ Len(ares.stories) >= 2
    /\ ~aworld.pages[1].ok /\ aworld.pages[2].ok
    /\ ares.stories[1][JoinKey] # ares.stories[2][JoinKey]
    /\ At(ares.merged, ares.stories[2][JoinKey]) = {1}
    /\ At(ares.merged, ares.stories[1][JoinKey]) = {2}
    /\ ares.out[1].urlArticle = ares.stories[2][JoinKey]
    /\ ares.out[2].urlArticle = ares.stories[1][JoinKey]

\* C22: a call requests the seed URL first and once; after it, the i-th
\* request is the join key of the i-th stub, so the links are requested in
\* listing order, once per stub and never again after a failure; a call
\* whose seed request failed requests nothing else; and the merge returns
\* only in a call that has requested the link of every stub.
C22_FetchOrderAndNumber ==
    (apc = "done" /\ Instantiable(acls)) =>
        /\ ares.requests # <<>>
        /\ ares.requests[1] = SeedUrl
        /\ \A i \in 2..Len(ares.requests) : ares.requests[i] # SeedUrl
        /\ ~aworld.seedOk => Len(ares.requests) = 1
        /\ Len(ares.requests) <= 1 + Len(ares.stories)
        /\ \A i \in 1..(Len(ares.requests) - 1) :
            ares.requests[i + 1] = ares.stories[i][JoinKey]
        /\ (ares.step = "to_json" \/ ares.status = "ok") =>
            (aworld.seedOk => Len(ares.requests) = 1 + Len(ares.stories))

\* C22 witness: a call returned on a listing of two or more distinct links,
\* one of which could not be fetched, having requested the seed URL and
\* then each link once.
C22_Witness ==
    /\ Returned
    /\ Len(ares.stories) >= 2
    /\ \E i, j \in 1..Len(ares.stories) :
        /\ ~aworld.pages[i].ok /\ aworld.pages[j].ok
        /\ ares.stories[i][JoinKey] # ares.stories[j][JoinKey]
    /\ Len(ares.requests) = 1 + Len(ares.stories)
    /\ ares.requests[1] = SeedUrl
    /\ \A i \in 1..Len(ares.stories) : ares.requests[i + 1] = ares.stories[i][JoinKey]

\* C25: every detail dict process_children builds has the field that
\* process passes to merge_lists_by_key as the key, holding the link the
\* dict was fetched from, and the merge raises no KeyError on a detail dict
\* or on a stub.
C25_DetailCarriesJoinKey ==
    (apc = "done" /\ Instantiable(acls)) =>
        /\ \A d \in 1..Len(ares.detailed) :
            /\ Has(ares.detailed[d], JoinKey)
            /\ \E i \in 1..Len(ares.fetched) : ares.detailed[d][JoinKey] = ares.fetched[i]
        /\ ares.step = "merge_lists_by_key" => ares.status # "KeyError"

\* C26: a call on a listing with an entry that lacks the title anchor, so
\* that its stub has no join key, raises nothing and returns a record for
\* every other entry of the listing, their pages being fetched and well
\* formed.
C26_ListingMissNotRaised ==
    (/\ apc = "done" /\ Instantiable(acls) /\ aworld.seedOk
     /\ \E i \in 1..Len(aworld.entries) : aworld.entries[i].link = 0
     /\ \A i \in 1..Len(aworld.entries) :
            /\ aworld.entries[i].time \in {"absent", "iso"}
            /\ aworld.pages[i].ok /\ aworld.pages[i].err = "none"
            /\ ReadsDetailDate(acls) => aworld.pages[i].date = "long"
            /\ \A j \in 1..Len(aworld.entries) :
                (aworld.entries[i].link # 0 /\ aworld.entries[i].link = aworld.entries[j].link)
                    => i = j)
    => /\ ares.status = "ok"
       /\ \A i \in 1..Len(aworld.entries) :
            aworld.entries[i].link # 0 =>
                \E r \in 1..Len(ares.out) :
                    ares.out[r].urlArticle = Url(aworld.entries[i].link)

\* C27: for every adapter class, source_info["class"]() returns an
\* instance: no call ends at the instantiation, with the TypeError of a
\* class that leaves an abstract method undefined.
C27_EveryAdapterInstantiable ==
    apc = "done" => (ares.step # "instantiate" /\ ares.requests # <<>>)

\* C28: a call that returns gives as many records as the stubs carry
\* distinct join key values, and every join key value of a detail dict is
\* that of a stub.
C28_OneRecordPerStubKey ==
    (apc = "done" /\ Instantiable(acls) /\ ares.status = "ok") =>
        /\ Len(ares.out) = Cardinality(JoinKeys(ares.stories))
        /\ JoinKeys(ares.detailed) \subseteq JoinKeys(ares.stories)
        /\ \A d \in 1..Len(ares.detailed) : Has(ares.detailed[d], JoinKey)

\* C28 witness: a call returned two records on a listing of three stubs,
\* two of them with the same key, with a detail page fetched and another
\* not.
C28_Witness ==
    /\ Returned
    /\ Len(ares.stories) = 3
    /\ Cardinality(JoinKeys(ares.stories)) = 2
    /\ Len(ares.out) = 2
    /\ ares.detailed # <<>>
    /\ \E i \in 1..3 : ~aworld.pages[i].ok

\* C30: the records a call returns all have the same capturedDate and the
\* same capturedTime, those of the one reading of the clock made before
\* the loop of to_json.
C30_OneClockReading ==
    (apc = "done" /\ Instantiable(acls) /\ ares.status = "ok") =>
        \A i, j \in 1..Len(ares.out) :
            /\ ares.out[i].capturedDate = ares.out[j].capturedDate
            /\ ares.out[i].capturedTime = ares.out[j].capturedTime

\* C30 witness: a call returned three records that differ in their links
\* and agree in their captured date and time.
C30_Witness ==
    /\ Returned
    /\ Len(ares.out) = 3
    /\ \A i, j \in 1..3 :
        /\ i # j => ares.out[i].urlArticle # ares.out[j].urlArticle
        /\ ares.out[i].capturedDate = ares.out[j].capturedDate
        /\ ares.out[i].capturedTime = ares.out[j].capturedTime

(***************************************************************************)
(* Properties of Engine.run, checked under Spec.                           *)
(***************************************************************************)
\* The lists process returned to run, from call i on, one after the other.
RECURSIVE ReturnedFrom(_)
ReturnedFrom(i) ==
    IF i > Len(calls) THEN <<>> ELSE calls[i].out \o ReturnedFrom(i + 1)

EnabledEntries == {i \in 1..Len(sources) : sources[i].enabled}

\* C5: when run returns, the adapters it called are those of the enabled
\* entries, one each, in the order of self.sources, and its result is the
\* lists their process calls returned, one after the other in that order,
\* each in the order process returned it.
C5_RunConcatenatesEnabled ==
    epc = "returned" =>
        /\ eres.returned
        /\ eres.value = ReturnedFrom(1)
        /\ Len(calls) = Cardinality(EnabledEntries)
        /\ \A j \in 1..Len(calls) :
            /\ calls[j].at \in EnabledEntries
            /\ calls[j].class = sources[calls[j].at].class
            /\ j < Len(calls) => calls[j].at < calls[j + 1].at

\* C5 witness: run returned from a configuration with a disabled entry and
\* two enabled ones whose adapters returned records, one of them two.
C5_Witness ==
    /\ epc = "returned"
    /\ \E i \in 1..Len(sources) : ~sources[i].enabled
    /\ \E j, k \in 1..Len(calls) :
        /\ j < k
        /\ Len(calls[j].out) >= 2
        /\ Len(calls[k].out) >= 1
        /\ eres.value = calls[j].out \o calls[k].out

\* C6: a process call that raised is the last call run made: run is left
\* by that exception, returns no list, and calls no further adapter.
C6_RunDoesNotCatch ==
    \A j \in 1..Len(calls) :
        calls[j].status # "ok" =>
            /\ j = Len(calls)
            /\ epc = "raised"
            /\ eres = [returned |-> FALSE, value |-> <<>>, error |-> calls[j].status]

\* C6 witness: run was left by an adapter's exception after another
\* adapter had returned records and before a later enabled entry.
C6_Witness ==
    /\ epc = "raised"
    /\ all_results # <<>>
    /\ calls[Len(calls)].status # "ok"
    /\ \E i \in EnabledEntries : i > idx

(***************************************************************************)
(* Properties of repeated calls of Engine.run, checked under SpecRuns.     *)
(***************************************************************************)
\* In the call of run under way or just ended: the adapters called are
\* those of enabled entries, at most one per entry and in the order of
\* self.sources; all_results holds the lists they returned and nothing
\* else; and a call that has returned has called the adapter of every
\* enabled entry and gives its caller that accumulated list.
RunCallsEnabledOnce ==
    /\ \A j \in 1..Len(calls) :
        /\ calls[j].at \in EnabledEntries
        /\ calls[j].class = sources[calls[j].at].class
        /\ j < Len(calls) => calls[j].at < calls[j + 1].at
    /\ epc = "loop" => all_results = ReturnedFrom(1)
    /\ epc = "returned" =>
        /\ Len(calls) = Cardinality(EnabledEntries)
        /\ all_results = ReturnedFrom(1)
        /\ eres = [returned |-> TRUE, value |-> ReturnedFrom(1), error |-> "none"]

\* C23: every call of run, the first or a later one, calls process once
\* for each enabled entry and never for a disabled one, accumulates from
\* the empty list only what those calls return, and, once called, ends:
\* it returns after the last entry unless a process call raised.
C23_RunOncePerEnabledAndEnds ==
    /\ []RunCallsEnabledOnce
    /\ (epc = "ready") ~> (epc = "returned" \/ epc = "raised")
    /\ [](epc = "raised" => calls # <<>> /\ calls[Len(calls)].status # "ok")

\* C23 witness: a second call of run has returned records, after a first
\* call that returned records, on a configuration with an enabled and a
\* disabled entry.
C23_Witness ==
    /\ epc = "returned"
    /\ prev = "records"
    /\ eres.value # <<>>
    /\ Len(calls) = 1
    /\ \E i \in 1..Len(sources) : ~sources[i].enabled

\* C24: no step of run, in any call, changes self.sources.
C24_SourcesUnchanged == [][sources' = sources]_vars

\* C24 witness: a call of run was left by an exception after an earlier
\* call had returned records, on a configuration of two entries.
C24_Witness ==
    /\ epc = "raised"
    /\ prev = "records"
    /\ Len(sources) = 2
    /\ sources \in Configs

(***************************************************************************)
(* Properties of merge_lists_by_key, checked under SpecMerge.              *)
(***************************************************************************)
\* Positions of the dicts of list l that carry key value k.
Occ(l, k) == {i \in 1..Len(l) : Has(l[i], "url") /\ l[i]["url"] = k}

\* Key values carried by the dicts of list l.
KeysOf(l) == {l[i]["url"] : i \in {j \in 1..Len(l) : Has(l[j], "url")}}

Max(a, b) == IF a >= b THEN a ELSE b

\* Positions of the returned list whose dict carries key value k.
MergedOcc(k) == Occ(Merged, k)

\* C7: when the call returns, for every key value carried by a dict p of
\* list1 and by exactly one dict s of list2, every field present in both p
\* and s has s's value in the returned dict of that key (the second list
\* wins, field by field).
C7_SecondaryWins ==
    MergeReturned =>
        \A i \in 1..Len(list1), j \in 1..Len(list2) :
            (/\ Has(list1[i], "url") /\ Has(list2[j], "url")
             /\ list1[i]["url"] = list2[j]["url"]
             /\ Occ(list2, list2[j]["url"]) = {j})
            => /\ MergedOcc(list2[j]["url"]) # {}
               /\ \A m \in MergedOcc(list2[j]["url"]) :
                    \A f \in DOMAIN list1[i] \cap DOMAIN list2[j] :
                        Has(Merged[m], f) /\ Merged[m][f] = list2[j][f]

\* C7 witness: the call returned on lists that share a key value whose two
\* dicts both carry a title.
C7_Witness ==
    /\ MergeReturned
    /\ \E i \in 1..Len(list1), j \in 1..Len(list2) :
        /\ Has(list1[i], "url") /\ Has(list2[j], "url")
        /\ list1[i]["url"] = list2[j]["url"]
        /\ Occ(list2, list2[j]["url"]) = {j}
        /\ Has(list1[i], "title") /\ Has(list2[j], "title")
        /\ \E m \in MergedOcc(list2[j]["url"]) : Merged[m]["title"] = TitleOf(2, j)

\* C8: when the call returns, for every key value carried by exactly one
\* dict p of list1 and by some dict of list2, every field of p that no dict
\* of list2 with that key carries has p's value in the returned dict of
\* that key.
C8_PrimaryOnlyFieldKept ==
    MergeReturned =>
        \A i \in 1..Len(list1) :
            (/\ Has(list1[i], "url")
             /\ Occ(list1, list1[i]["url"]) = {i}
             /\ Occ(list2, list1[i]["url"]) # {})
            => /\ MergedOcc(list1[i]["url"]) # {}
               /\ \A m \in MergedOcc(list1[i]["url"]) :
                    \A f \in DOMAIN list1[i] :
                        (\A j \in Occ(list2, list1[i]["url"]) : ~Has(list2[j], f))
                        => Has(Merged[m], f) /\ Merged[m][f] = list1[i][f]

\* C8 witness: the call returned on lists that share a key value, the title
\* being present in list1's dict only.
C8_Witness ==
    /\ MergeReturned
    /\ \E i \in 1..Len(list1) :
        /\ Has(list1[i], "url") /\ Has(list1[i], "title")
        /\ Occ(list1, list1[i]["url"]) = {i}
        /\ Occ(list2, list1[i]["url"]) # {}
        /\ \A j \in Occ(list2, list1[i]["url"]) : ~Has(list2[j], "title")
        /\ \E m \in MergedOcc(list1[i]["url"]) : Merged[m]["title"] = TitleOf(1, i)

\* C9 as stated: the returned list is at least as long as the longer input
\* and at most as long as both inputs together, whatever the inputs.
C9_LengthBetweenMaxAndSum ==
    MergeReturned =>
        /\ Len(mres.list) >= Max(Len(list1), Len(list2))
        /\ Len(mres.list) <= Len(list1) + Len(list2)

\* C9 amended: when the call returns, the returned list holds at least as
\* many dicts as the larger of the two lists' numbers of distinct key values
\* and at most as many as both lists hold together.
C9_LengthBetweenDistinctAndSum ==
    MergeReturned =>
        /\ Len(mres.list) >= Max(Cardinality(KeysOf(list1)), Cardinality(KeysOf(list2)))
        /\ Len(mres.list) <= Len(list1) + Len(list2)

\* C9 witness: the call returned on a list that repeats a key value, and
\* the returned list is shorter than that list.
C9_Witness ==
    /\ MergeReturned
    /\ Cardinality(KeysOf(list1)) < Len(list1)
    /\ Len(mres.list) < Len(list1)
    /\ Len(mres.list) >= Cardinality(KeysOf(list2))

\* C10: when the call returns, every key value carried by a dict of list1
\* or list2 is carried by exactly one dict of the returned list, and the
\* returned list's length is the number of distinct key values of the two
\* lists (in particular when their key sets are disjoint).
C10_EachKeyExactlyOnce ==
    MergeReturned =>
        /\ \A k \in KeysOf(list1) \cup KeysOf(list2) : Cardinality(MergedOcc(k)) = 1
        /\ (KeysOf(list1) \cap KeysOf(list2) = {}
            => Len(mres.list) = Cardinality(KeysOf(list1)) + Cardinality(KeysOf(list2)))
        /\ Len(mres.list) = Cardinality(KeysOf(list1) \cup KeysOf(list2))

\* C10 witness: the call returned on two non-empty lists with disjoint key
\* sets, one of which repeats a key value.
C10_Witness ==
    /\ MergeReturned
    /\ KeysOf(list1) # {} /\ KeysOf(list2) # {}
    /\ KeysOf(list1) \cap KeysOf(list2) = {}
    /\ Cardinality(KeysOf(list2)) < Len(list2)
    /\ Len(mres.list) = 2

\* The fields of the dicts of the merge harness.
HarnessFields == {"url", "title"}

\* Positions of the dicts of list l that carry key value k and field f.
OccWith(l, k, f) == {i \in Occ(l, k) : Has(l[i], f)}

\* C11: when the call returns, a field that dicts of exactly one of the two
\* lists carry under a key value is carried, with a value it has there, by
\* a returned dict of that key value, also when a list repeats a key value.
C11_NoFieldDropped ==
    MergeReturned =>
        \A k \in KeysOf(list1) \cup KeysOf(list2), f \in HarnessFields :
            ((OccWith(list1, k, f) # {}) # (OccWith(list2, k, f) # {}))
            => \E m \in MergedOcc(k) :
                /\ Has(Merged[m], f)
                /\ Merged[m][f] \in {list1[i][f] : i \in OccWith(list1, k, f)}
                                        \cup {list2[j][f] : j \in OccWith(list2, k, f)}

\* C11 as amended: when the call returns, a field that only list2 dicts
\* carry under a key value has, in the returned dict of that key value, the
\* value of the last list2 dict carrying it; a field that only list1 dicts
\* carry has the value of the last list1 dict of that key value, if that
\* dict carries it (the earlier list1 dicts of the key value are replaced).
C11_NoFieldDroppedButByRepeatedPrimary ==
    MergeReturned =>
        \A k \in KeysOf(list1) \cup KeysOf(list2), f \in HarnessFields :
            /\ MergedOcc(k) # {}
            /\ (OccWith(list1, k, f) = {} /\ OccWith(list2, k, f) # {})
                => \A m \in MergedOcc(k) :
                    /\ Has(Merged[m], f)
                    /\ Merged[m][f] = list2[Last(OccWith(list2, k, f))][f]
            /\ (/\ OccWith(list2, k, f) = {}
                /\ Occ(list1, k) # {}
                /\ Has(list1[Last(Occ(list1, k))], f))
                => \A m \in MergedOcc(k) :
                    /\ Has(Merged[m], f)
                    /\ Merged[m][f] = list1[Last(Occ(list1, k))][f]

\* C11 witness: the call returned on a list1 whose two dicts carry one key
\* value, the title being in the second only, and a list2 dict of that key
\* value without title; the returned dict has that title.
C11_Witness ==
    /\ MergeReturned
    /\ Len(list1) = 2 /\ Len(list2) = 1
    /\ \E k \in KeyVals :
        /\ Occ(list1, k) = {1, 2} /\ Occ(list2, k) = {1}
        /\ OccWith(list1, k, "title") = {2}
        /\ OccWith(list2, k, "title") = {}
        /\ \E m \in MergedOcc(k) : Merged[m]["title"] = TitleOf(1, 2)

\* The list the second call returned, as dicts.
MergedAgain == Deref(mres2.heap, mres2.list)

\* C12: merging the list a call returned with the same list2 once more
\* returns, and returns the same dicts in the same order.
C12_MergeIdempotent ==
    mpc = "again" => (mres2.status = "ok" /\ MergedAgain = Merged)

\* C12 witness: the second call returned after a first call that overlaid
\* a list2 title on a list1 dict and inserted a list2 dict of another key
\* value.
C12_Witness ==
    /\ mpc = "again"
    /\ mres2.status = "ok"
    /\ Len(list1) >= 1 /\ Len(list2) = 2
    /\ Has(list1[1], "title")
    /\ Occ(list2, list1[1]["url"]) = {1} /\ Has(list2[1], "title")
    /\ Occ(list1, list2[2]["url"]) = {}
    /\ Len(MergedAgain) = Len(list1) + 1

\* The key values of the dicts of list l from position i on that are not in
\* seen, each once, in the order of their first occurrence.
RECURSIVE FirstKeys(_, _, _)
FirstKeys(l, i, seen) ==
    IF i > Len(l) THEN <<>>
    ELSE IF l[i]["url"] \in seen THEN FirstKeys(l, i + 1, seen)
    ELSE <<l[i]["url"]>> \o FirstKeys(l, i + 1, seen \cup {l[i]["url"]})

\* C13: when the call returns, the key values of the returned dicts are
\* those of list1, in the order list1 first has them, followed by those of
\* list2 alone, in the order list2 first has them.
C13_InsertionOrder ==
    MergeReturned =>
        [m \in 1..Len(Merged) |-> Merged[m]["url"]]
            = FirstKeys(list1, 1, {}) \o FirstKeys(list2, 1, KeysOf(list1))

\* C13 witness: the call returned on a list1 of one dict and a list2 that
\* has a new key value first and list1's key value second; list1's dict
\* comes first.
C13_Witness ==
    /\ MergeReturned
    /\ Len(list1) = 1 /\ Len(list2) = 2
    /\ list2[2]["url"] = list1[1]["url"]
    /\ list2[1]["url"] # list1[1]["url"]
    /\ Len(Merged) = 2
    /\ Merged[1]["url"] = list1[1]["url"]
    /\ Merged[2]["url"] = list2[1]["url"]

\* The dicts of list l that lack the key field.
Keyless(l) == {i \in 1..Len(l) : ~Has(l[i], "url")}

\* C14: a call on lists with a dict that lacks the key field returns, and
\* every such dict is a returned dict of its own, unchanged, next to which
\* every key value of the other dicts is carried by one returned dict.
C14_KeylessRecordKept ==
    (mpc = "done" /\ Keyless(list1) \cup Keyless(list2) # {})
    => /\ mres.status = "ok"
       /\ \A i \in Keyless(list1) : \E m \in 1..Len(Merged) : Merged[m] = list1[i]
       /\ \A j \in Keyless(list2) : \E m \in 1..Len(Merged) : Merged[m] = list2[j]
       /\ \A k \in KeysOf(list1) \cup KeysOf(list2) : Cardinality(MergedOcc(k)) = 1

\* Dict d after d.update(item) for every dict item of list l with key k,
\* from position j on.
RECURSIVE OverlaidWith(_, _, _, _)
OverlaidWith(d, l, k, j) ==
    IF j > Len(l) THEN d
    ELSE OverlaidWith(IF l[j]["url"] = k THEN Update(d, l[j]) ELSE d, l, k, j + 1)

\* C29: when the call returns, the objects of the two lists are as many as
\* were passed; for every key of both lists, the last list1 object of the
\* key is itself in the returned list and holds its fields overlaid with
\* those of the list2 dicts of the key, no list2 object of the key is in
\* the returned list, and the list2 objects of the key and the other list1
\* objects are as they were passed; a list1 object whose key list2 does not
\* have is as it was passed.
C29_MergesIntoPrimaryObject ==
    MergeReturned =>
        LET n1 == Len(list1)
        IN  /\ Len(mres.heap) = n1 + Len(list2)
            /\ \A k \in KeysOf(list1) \cap KeysOf(list2) :
                LET p == Last(Occ(list1, k))
                IN  /\ \E m \in 1..Len(mres.list) : mres.list[m] = p
                    /\ \A m \in 1..Len(mres.list), j \in Occ(list2, k) :
                        mres.list[m] # n1 + j
                    /\ mres.heap[p] = OverlaidWith(list1[p], list2, k, 1)
                    /\ \A j \in Occ(list2, k) : mres.heap[n1 + j] = list2[j]
                    /\ \A i \in Occ(list1, k) \ {p} : mres.heap[i] = list1[i]
            /\ \A i \in 1..n1 :
                list1[i]["url"] \notin KeysOf(list2) => mres.heap[i] = list1[i]

\* C29 witness: the call returned after overlaying a list2 dict on a list1
\* object of the same key, which changed the object, and the list2 object
\* is as it was passed.
C29_Witness ==
    /\ MergeReturned
    /\ \E i \in 1..Len(list1), j \in 1..Len(list2) :
        /\ list1[i]["url"] = list2[j]["url"]
        /\ mres.heap[i] # list1[i]
        /\ mres.heap[Len(list1) + j] = list2[j]
        /\ \E m \in 1..Len(mres.list) : mres.list[m] = i

(***************************************************************************)
(* Properties of extract_date_time_from_iso, checked under SpecIso.        *)
(***************************************************************************)
\* C17: the call returns ("", "") for None and for the empty string, and
\* for a timestamp text with the suffix Z it returns the timestamp's date
\* as YYYY-MM-DD and its time as HH:MM:SS.
C17_IsoConversion ==
    ipc = "done" =>
        /\ iso_string.kind \in {"none", "empty"} =>
            iso_out = [status |-> "ok", date |-> EmptyDateText, time |-> EmptyTimeText]
        /\ (iso_string.kind = "stamp" /\ iso_string.stamp.zone = "Z") =>
            /\ iso_out.status = "ok"
            /\ iso_out.date = [form |-> "YYYY-MM-DD", y |-> iso_string.stamp.y,
                               mo |-> iso_string.stamp.mo, d |-> iso_string.stamp.d]
            /\ iso_out.time.form = "HH:MM:SS"
            /\ iso_out.time.h = iso_string.stamp.h
            /\ iso_out.time.mi = iso_string.stamp.mi
            /\ iso_out.time.s = iso_string.stamp.s

====
